---- MODULE Spec2Model ----
(***************************************************************************)
(* A model of youtube_music_history.py: YouTubeMusicHistoryProcessor.      *)
(*                                                                         *)
(* One run of the program: load_cache (from __init__), then the loop of    *)
(* fetch_album_info, one step per Listen, then the final save_cache,       *)
(* finalize_data and write_output_files.  The Catalog Client (ytmusicapi)  *)
(* and the file system are the environment: every answer of search(),      *)
(* every answer of get_library_upload_songs() and every outcome of a       *)
(* cache-file write is drawn from a small set.                             *)
(*                                                                         *)
(* Python dicts are functions with a set of string keys as DOMAIN, so that *)
(* "key in dict", dict.get and dict.pop are what they are in the code.     *)
(* None is the empty sequence and a present value v is <<v>> where the     *)
(* code distinguishes the two.                                             *)
(***************************************************************************)
EXTENDS Integers, Sequences, FiniteSets, TLC

\* ------------------------------------------------------------ bounds

\* The longest parsed Listen sequence of the enrichment specification.
MaxSongs == 2

\* The chunking specification: Listen sequences of up to MaxChunks full
\* chunks, give or take ChunkSlack Listens.
MaxChunks == 2

ChunkSlack == 8

\* The number of Listens of the persistence specification.
LossSongs == 12

\* The largest --limit of the command-line specification.
MaxLimit == 2

\* ------------------------------------------------- program constants

\* write_output_files: the single-file threshold and the chunk size.
chunk_size == 2800

\* process_regular_song: the cache is saved when successful_api_count is a
\* multiple of this.
save_every == 10

\* fetch_album_info: progress is printed when completed_items is a multiple
\* of this.
progress_every == 10

\* main: the number of songs --test-mode keeps.
test_mode_limit == 500

\* get_library_uploads: the key of the cache that holds the snapshot.
cache_key == "library_uploads"

\* ------------------------------------------------------- dict helpers

EmptyDict == [k \in {} |-> TRUE]

Put(d, k, v) == [x \in (DOMAIN d) \cup {k} |-> IF x = k THEN v ELSE d[x]]

Pop(d, k) == [x \in (DOMAIN d) \ {k} |-> d[x]]

None == <<>>

Some(v) == <<v>>

\* -------------------------------------------------- the input domain

\* Video ids of watch-history records; "" is a record without titleUrl.
\* (The library holds a second id, "b", that no record carries.)
Ids == {"", "a"}

\* artistName of a Listen from a topic channel; "Release" is the channel
\* label of songs without an artist page.
TopicArtists == {"Release", "X"}

UploadsLabel == "Music Library Uploads"

\* process_history_data: the Listen built from one accepted record.  The
\* timestamp of the model is the record's position in the export.
Song(artist, id, ts, upload) ==
    [artistName |-> artist, trackName |-> "T", ts |-> ts, id |-> id,
     isLibraryUpload |-> upload]

\* The Listens one accepted record at position ts can give: a topic-channel
\* record, or a library upload, whose artistName is the raw channel label.
SongsAt(ts) ==
    {Song(a, id, ts, FALSE) : a \in TopicArtists, id \in Ids}
        \cup {Song(UploadsLabel, id, ts, TRUE) : id \in Ids}

\* Every parsed sequence of length n.
RECURSIVE SongLists(_)
SongLists(n) ==
    IF n = 0 THEN {<<>>}
    ELSE {Append(s, x) : s \in SongLists(n - 1), x \in SongsAt(n)}

\* ------------------------------------------------ the Catalog Client

\* One search result: 'album' is None or {'name': ...}, 'artists' a list of
\* {'name': ...}; either key may be missing.
ResultAlbum(name) == [album |-> Some(name)]

SearchResults ==
    { EmptyDict,                                    \* no 'album' key
      [album |-> None],                             \* 'album': None
      ResultAlbum("A1"),                            \* album, no 'artists'
      [album |-> Some("A1"), artists |-> <<>>],     \* 'artists': []
      [album |-> Some("A2"), artists |-> <<"Y">>] }

\* What ytmusic.search(query, filter="songs", limit=1) does: it raises, or
\* it returns a list of at most one result.
SearchOutcomes ==
    {[raises |-> TRUE, results |-> <<>>], [raises |-> FALSE, results |-> <<>>]}
        \cup {[raises |-> FALSE, results |-> <<r>>] : r \in SearchResults}

\* Upload records of the library: 'artists' and 'album' may be missing, and
\* 'album' is a dict {'name': ...} or a plain string.
UploadA == [videoId |-> "a", artists |-> <<"Y">>,
            album |-> [isDict |-> TRUE, name |-> "A1"]]

UploadB == [videoId |-> "b", album |-> [isDict |-> FALSE, name |-> "A2"]]

Snapshots == {<<>>, <<UploadB, UploadA>>}

\* What ytmusic.get_library_upload_songs(limit=None) does.
FetchOutcomes ==
    {[raises |-> TRUE, uploads |-> <<>>]}
        \cup {[raises |-> FALSE, uploads |-> s] : s \in Snapshots}

\* ---------------------------------------------------- the cache file

\* A Match Cache entry as fetch_album_info writes it.
Entry(album, artist) == [albumName |-> album, artistName |-> artist]

\* Entries a prior run can have persisted for id "a": the artist is the one
\* the Catalog Client gave for a "Release" Listen or a library upload.
PriorEntries == {Entry("A1", "Y")}

\* The contents a prior run can have left in api_cache.json: entries by id,
\* with or without the snapshot under cache_key.
PriorCaches ==
    LET byId == {EmptyDict} \cup {Put(EmptyDict, "a", e) : e \in PriorEntries}
    IN  byId \cup {Put(d, cache_key, s) : d \in byId, s \in Snapshots}

\* api_cache.json: missing, unreadable as JSON, or a dict.
FileMissing == [state |-> "missing", data |-> EmptyDict]

FileCorrupt == [state |-> "corrupt", data |-> EmptyDict]

FileOf(d) == [state |-> "ok", data |-> d]

CacheFiles == {FileMissing, FileCorrupt} \cup {FileOf(d) : d \in PriorCaches}

\* ------------------------------------------------------------- state

VARIABLES
    authenticated,          \* oauth.json exists
    cache_file,             \* api_cache.json on disk
    api_cache,              \* self.api_cache
    queried_ids,            \* self.queried_ids
    library_uploads_cache,  \* self.library_uploads_cache: None or Some(list)
    successful_api_count,   \* self.successful_api_count
    songs,                  \* self.songs
    completed_items,        \* fetch_album_info's counter, the loop position
    pc,                     \* "load", "parse", "loop", "done"
    files,                  \* the output files written: name -> items
    parsed,                 \* the Listens handed to fetch_album_info
    log,                    \* per processed item: path taken, client calls
    args,                   \* the command line, as argparse reads it
    history,                \* the Listens process_history_data finds
    client,                 \* the Catalog Client the run talks to
    persist,                \* save_cache calls: how many, the last outcome,
                            \* cache entries added since the last call
    progress,               \* the completed counts a progress line showed
    first_output            \* None, or Some(what the run before wrote)

vars == <<authenticated, cache_file, api_cache, queried_ids,
          library_uploads_cache, successful_api_count, songs,
          completed_items, pc, files, parsed, log, args, history, client,
          persist, progress, first_output>>

\* What a step inside one run leaves alone.
setting == <<args, history, client, first_output>>

\* ---------------------------------------------------- the command line

\* main: the arguments; limit is None when --limit is not given.  no_album
\* is the option of the commented-out add_argument line.
NoArgs ==
    [limit |-> None, only_uploads |-> FALSE, test_mode |-> FALSE,
     no_album |-> FALSE]

ArgSets ==
    [limit : {None} \cup {Some(n) : n \in 0..MaxLimit},
     only_uploads : BOOLEAN, test_mode : BOOLEAN, no_album : BOOLEAN]

\* s[:n] of Python.
Slice(s, n) ==
    LET stop == IF n >= 0 THEN (IF n < Len(s) THEN n ELSE Len(s))
                ELSE (IF Len(s) + n > 0 THEN Len(s) + n ELSE 0)
    IN  SubSeq(s, 1, stop)

\* "if args.limit:" is true for a limit that is given and not 0.
LimitGiven(a) == a.limit # None /\ a.limit[1] # 0

IsUpload(song) == song.isLibraryUpload

\* main: the filters, in the order of the code.
ApplyFilters(s, a) ==
    LET s1 == IF LimitGiven(a) THEN Slice(s, a.limit[1]) ELSE s
        s2 == IF a.only_uploads THEN SelectSeq(s1, IsUpload) ELSE s1
    IN  IF a.test_mode THEN Slice(s2, test_mode_limit) ELSE s2

\* ------------------------------------------- the client of one run

\* The search query: f"{song['artistName']} - {song['trackName']}".
Query(song) == <<song.artistName, song.trackName>>

Queries == {<<a, "T">> : a \in TopicArtists}

\* A client that may answer anything at every call.
AnyClient == [kind |-> "any"]

\* A client that never raises and answers a search with nothing or with an
\* album, a fetch with a snapshot.
PlainClient == [kind |-> "plain"]

PlainOutcomes ==
    {[raises |-> FALSE, results |-> <<>>],
     [raises |-> FALSE, results |-> <<ResultAlbum("A1")>>]}

\* A deterministic client that never raises: the answer to a search is a
\* function of the query, the library is one snapshot.
FixedAnswers ==
    {[raises |-> FALSE, results |-> <<>>],
     [raises |-> FALSE, results |-> <<ResultAlbum("A1")>>],
     [raises |-> FALSE,
      results |-> <<[album |-> Some("A2"), artists |-> <<"Y">>]>>]}

FixedClients ==
    {[kind |-> "fixed", search |-> f, uploads |-> u] :
        f \in [Queries -> FixedAnswers], u \in Snapshots}

\* What self.ytmusic.search can do for the Listen, with this client.
SearchAnswers(song) ==
    CASE client.kind = "any" -> SearchOutcomes
      [] client.kind = "plain" -> PlainOutcomes
      [] OTHER -> {client.search[Query(song)]}

\* What self.ytmusic.get_library_upload_songs can do, with this client.
FetchAnswers ==
    CASE client.kind = "any" -> FetchOutcomes
      [] client.kind = "plain" ->
            {[raises |-> FALSE, uploads |-> u] : u \in Snapshots}
      [] OTHER -> {[raises |-> FALSE, uploads |-> client.uploads]}

\* ------------------------------------------- what was persisted when

NothingSaved == [calls |-> 0, last |-> "none", since |-> 0]

\* One more call of save_cache, which ended as sv.
Saved(p, sv) == [calls |-> p.calls + 1, last |-> sv, since |-> 0]

\* The keys the cache gained.
NewKeys(old, new) == Cardinality((DOMAIN new) \ (DOMAIN old))

Added(p, n) == [p EXCEPT !.since = @ + n]

\* -------------------------------------------------------- save_cache

\* A write of api_cache.json: it succeeds, open() fails and the file stays
\* as it was, or the dump fails after open() has truncated the file.
SaveOutcomes == {"ok", "open_fails", "dump_fails"}

\* save_cache: the file after one call that ends as sv says.  The error is
\* caught and printed, never raised.
save_cache(cache, file, sv) ==
    CASE sv = "ok" -> FileOf(cache)
      [] sv = "open_fails" -> file
      [] OTHER -> FileCorrupt

\* -------------------------------------------------------- load_cache

\* load_cache: api_cache after it.  A missing file leaves {}, a file that
\* does not parse raises and the handler sets {}.
LoadedCache(file) == IF file.state = "ok" THEN file.data ELSE EmptyDict

\* load_cache without "self.queried_ids = set(self.api_cache.keys())".
LoadedQueriedIds_NotRestored(file) == {}

\* load_cache: queried_ids after it, the keys of the loaded dict.
LoadedQueriedIds(file) ==
    IF file.state = "ok" THEN DOMAIN file.data ELSE {}

\* ----------------------------------------------- get_library_uploads

\* get_library_uploads without its "if not self.authenticated" return.
get_library_uploads_NoAuthCheck(f, sv) ==
    LET same == [uploads |-> <<>>, luc |-> library_uploads_cache,
                 cache |-> api_cache, count |-> successful_api_count,
                 file |-> cache_file, fetched |-> FALSE, raised |-> FALSE]
    IN  IF library_uploads_cache # None
        THEN [same EXCEPT !.uploads = library_uploads_cache[1]]
        ELSE IF cache_key \in DOMAIN api_cache
        THEN [same EXCEPT !.uploads = api_cache[cache_key],
                          !.luc = Some(api_cache[cache_key])]
        ELSE IF f.raises
        THEN [same EXCEPT !.fetched = TRUE, !.raised = TRUE]
        ELSE LET cache1 == Put(api_cache, cache_key, f.uploads)
             IN  [uploads |-> f.uploads, luc |-> Some(f.uploads),
                  cache |-> cache1, count |-> successful_api_count + 1,
                  file |-> save_cache(cache1, cache_file, sv),
                  fetched |-> TRUE, raised |-> FALSE]

\* get_library_uploads: the list returned and the fields it leaves behind,
\* when the fetch (if one is made) ends as f and the save (if one is made)
\* as sv.  fetched: get_library_upload_songs was called.
get_library_uploads(f, sv) ==
    LET same == [uploads |-> <<>>, luc |-> library_uploads_cache,
                 cache |-> api_cache, count |-> successful_api_count,
                 file |-> cache_file, fetched |-> FALSE, raised |-> FALSE]
    IN  IF ~authenticated THEN same
        ELSE IF library_uploads_cache # None
        THEN [same EXCEPT !.uploads = library_uploads_cache[1]]
        ELSE IF cache_key \in DOMAIN api_cache
        THEN [same EXCEPT !.uploads = api_cache[cache_key],
                          !.luc = Some(api_cache[cache_key])]
        ELSE IF f.raises
        THEN [same EXCEPT !.fetched = TRUE, !.raised = TRUE]
        ELSE LET cache1 == Put(api_cache, cache_key, f.uploads)
             IN  [uploads |-> f.uploads, luc |-> Some(f.uploads),
                  cache |-> cache1, count |-> successful_api_count + 1,
                  file |-> save_cache(cache1, cache_file, sv),
                  fetched |-> TRUE, raised |-> FALSE]

\* ------------------------------------------------- find_upload_match

\* The artist and album the code reads from a matching upload.
UploadArtist(u) ==
    IF "artists" \in DOMAIN u /\ u.artists # <<>> THEN u.artists[1]
    ELSE "Unknown"

UploadAlbum(u) ==
    IF "album" \in DOMAIN u THEN u.album.name ELSE ""

\* find_upload_match: None, or the match built from the first upload whose
\* videoId equals id.
find_upload_match(id, uploads) ==
    LET hits == {k \in 1..Len(uploads) :
                    "videoId" \in DOMAIN uploads[k] /\ uploads[k].videoId = id}
    IN  IF hits = {} THEN None
        ELSE LET u == uploads[CHOOSE k \in hits : \A j \in hits : k <= j]
             IN  Some([albumName |-> UploadAlbum(u), videoId |-> u.videoId,
                       artistName |-> UploadArtist(u)])

\* -------------------------------------------- process_library_upload

\* process_library_upload: the Listen after it and the value returned.
process_library_upload(song, uploads) ==
    LET upload_match == find_upload_match(song.id, uploads)
    IN  IF upload_match = None THEN [song |-> song, success |-> FALSE]
        ELSE [song |-> Put(Put(song, "albumName", upload_match[1].albumName),
                           "artistName", upload_match[1].artistName),
              success |-> TRUE]

\* ---------------------------------------------- process_regular_song

\* The cache write of process_regular_song without its "if song_id:".
RegularCacheWrite_Unguarded(cache, song_id, album_name, song) ==
    Put(cache, song_id, Entry(album_name, song.artistName))

\* The cache entry process_regular_song writes for a resolved Listen.
RegularCacheWrite(cache, song_id, album_name, song) ==
    IF song_id # "" THEN Put(cache, song_id, Entry(album_name, song.artistName))
    ELSE cache

\* The Listen once search_results[0]['album']['name'] has been stored in
\* it.
SetAlbumName(song, album_name) == Put(song, "albumName", album_name)

\* process_regular_song from the search result on, where count is
\* successful_api_count after the call.  exception: the body raised.
\* save: save_cache was called (every save_every-th counted call).
AfterSearch(song, results, count) ==
    LET base == [song |-> song, success |-> FALSE, exception |-> FALSE,
                 cache |-> api_cache, count |-> count, searched |-> TRUE,
                 raised |-> FALSE, save |-> FALSE]
    IN  IF results = <<>> \/ "album" \notin DOMAIN results[1] THEN base
        ELSE IF results[1].album = None
        THEN [base EXCEPT !.exception = TRUE]
        ELSE LET r == results[1]
                 album_name == r.album[1]
                 song1 == SetAlbumName(song, album_name)
             IN  IF song.artistName = "Release" /\ "artists" \in DOMAIN r
                 THEN IF r.artists = <<>>
                      THEN [base EXCEPT !.song = song1, !.exception = TRUE]
                      ELSE LET song2 == Put(song1, "artistName", r.artists[1])
                           IN  [base EXCEPT
                                  !.song = song2, !.success = TRUE,
                                  !.cache = RegularCacheWrite(
                                              api_cache, song.id, album_name, song2),
                                  !.save = (song.id # "" /\ count % save_every = 0)]
                 ELSE [base EXCEPT
                         !.song = song1, !.success = TRUE,
                         !.cache = RegularCacheWrite(
                                     api_cache, song.id, album_name, song1),
                         !.save = (song.id # "" /\ count % save_every = 0)]

\* process_regular_song, when the search (if one is made) ends as s.
process_regular_song(song, s) ==
    IF /\ song.id # ""
       /\ song.id \in DOMAIN api_cache
       /\ "albumName" \in DOMAIN api_cache[song.id]
    THEN [song |-> Put(song, "albumName", api_cache[song.id].albumName),
          success |-> TRUE, exception |-> FALSE, cache |-> api_cache,
          count |-> successful_api_count, searched |-> FALSE,
          raised |-> FALSE, save |-> FALSE]
    ELSE IF s.raises
    THEN [song |-> song, success |-> FALSE, exception |-> TRUE,
          cache |-> api_cache, count |-> successful_api_count,
          searched |-> TRUE, raised |-> TRUE, save |-> FALSE]
    ELSE AfterSearch(song, s.results, successful_api_count + 1)

\* ------------------------------------------------ write_output_files

\* f"formatted-{i+1}.json"
ChunkName(n) == "formatted-" \o ToString(n) \o ".json"

\* The loop over range(0, len(self.songs), chunk_size): the files written
\* from the i-th chunk on (i counted from 0).
RECURSIVE WriteChunks(_, _, _, _)
WriteChunks(written, s, i, chunk_start) ==
    IF chunk_start >= Len(s) THEN written
    ELSE LET stop == IF chunk_start + chunk_size < Len(s)
                     THEN chunk_start + chunk_size ELSE Len(s)
             chunk == SubSeq(s, chunk_start + 1, stop)
         IN  WriteChunks(Put(written, ChunkName(i + 1), chunk), s, i + 1,
                         chunk_start + chunk_size)

\* write_output_files with "<=" for "<" in the single-file test.
write_output_files_Inclusive(s) ==
    IF Len(s) <= chunk_size THEN Put(EmptyDict, "formatted.json", s)
    ELSE WriteChunks(EmptyDict, s, 0, 0)

\* write_output_files: the files written for the list s.
write_output_files(s) ==
    IF Len(s) < chunk_size THEN Put(EmptyDict, "formatted.json", s)
    ELSE WriteChunks(EmptyDict, s, 0, 0)

\* ----------------------------------------------------- finalize_data

\* The strip without the second pop.
StripSong_KeepsUploadFlag(song) == Pop(song, "id")

\* song.pop('id', None); song.pop('isLibraryUpload', None)
StripSong(song) == Pop(Pop(song, "id"), "isLibraryUpload")

\* finalize_data that keeps only the Listens that got an album.
IsEnriched(song) == "albumName" \in DOMAIN song

finalize_data_DropsUnresolved(s) ==
    SelectSeq([k \in 1..Len(s) |-> Pop(Pop(s[k], "id"), "isLibraryUpload")],
              IsEnriched)

\* finalize_data: the list with the temporary fields removed.
finalize_data(s) == [k \in 1..Len(s) |-> StripSong(s[k])]

\* -------------------------------------------------- fetch_album_info

\* The test of the loop for "we already have info for this ID".
IsCacheHit(song_id) ==
    song_id # "" /\ song_id \in queried_ids /\ song_id \in DOMAIN api_cache

\* The Listen after the cached entry has been copied into it.
CopyCached(song, cached_data) ==
    LET s1 == IF "albumName" \in DOMAIN cached_data
              THEN Put(song, "albumName", cached_data.albumName) ELSE song
    IN  IF "artistName" \in DOMAIN cached_data
        THEN Put(s1, "artistName", cached_data.artistName) ELSE s1

\* The entry the loop writes for a resolved Listen: song.get(key, '').
LoopEntry(song) ==
    Entry(IF "albumName" \in DOMAIN song THEN song.albumName ELSE "",
          IF "artistName" \in DOMAIN song THEN song.artistName ELSE "")

\* The loop's cache write as a new dict in place of an item assignment.
LoopCacheWrite_Replaces(cache, song, success) ==
    IF success /\ song.id # "" THEN Put(EmptyDict, song.id, LoopEntry(song))
    ELSE cache

\* "if success and song_id": the cache and queried_ids after the try body.
LoopCacheWrite(cache, song, success) ==
    IF success /\ song.id # "" THEN Put(cache, song.id, LoopEntry(song))
    ELSE cache

\* The loop recording every id it tried, resolved or not.
LoopQueried_Always(song, success) == queried_ids \cup {song.id}

\* "if success and song_id: self.queried_ids.add(song_id)"
LoopQueried(song, success) ==
    IF success /\ song.id # "" THEN queried_ids \cup {song.id}
    ELSE queried_ids

\* The loop without the try/except: an exception ends the program.
PcAfterTry_Uncaught(exception) == IF exception THEN "crashed" ELSE "loop"

\* "except Exception": the handler prints, saves the cache and falls
\* through to the next iteration, whatever the try body raised.
PcAfterTry(exception) == "loop"

\* What the log keeps of one iteration.
LogItem(path, searched, fetched, raised, exception, success) ==
    [path |-> path, searched |-> searched, fetched |-> fetched,
     raised |-> raised, exception |-> exception, success |-> success]

\* The position of the Listen the loop is at.
Current == completed_items + 1

InLoop == pc = "loop" /\ completed_items < Len(songs)

\* ------------------------------------------------------------ actions

\* The fields of a process that has just started.
Fresh ==
    /\ api_cache = EmptyDict
    /\ queried_ids = {}
    /\ library_uploads_cache = None
    /\ successful_api_count = 0
    /\ songs = <<>>
    /\ completed_items = 0
    /\ parsed = <<>>
    /\ log = <<>>
    /\ persist = NothingSaved
    /\ progress = {}

Init ==
    /\ authenticated \in BOOLEAN
    /\ cache_file \in CacheFiles
    /\ Fresh
    /\ pc = "load"
    /\ files = EmptyDict
    /\ history \in UNION {SongLists(n) : n \in 0..MaxSongs}
    /\ args = NoArgs
    /\ client = AnyClient
    /\ first_output = None

\* __init__: load_cache.
LoadCache ==
    /\ pc = "load"
    /\ api_cache' = LoadedCache(cache_file)
    /\ queried_ids' = LoadedQueriedIds(cache_file)
    /\ pc' = "parse"
    /\ UNCHANGED <<authenticated, cache_file, library_uploads_cache,
                   successful_api_count, songs, completed_items, files,
                   parsed, log, persist, progress, setting>>

\* main: process_history_data and the filters; fetch_album_info starts.
ProcessHistoryData ==
    /\ pc = "parse"
    /\ songs' = ApplyFilters(history, args)
    /\ parsed' = songs'
    /\ completed_items' = 0
    /\ pc' = "loop"
    /\ UNCHANGED <<authenticated, cache_file, api_cache, queried_ids,
                   library_uploads_cache, successful_api_count, files,
                   log, persist, progress, setting>>

\* "Show progress periodically": the counts shown, once completed_items
\* is n.
ShowProgress(n) ==
    IF n % progress_every = 0 \/ n = Len(songs) THEN progress \cup {n}
    ELSE progress

\* An except handler that only prints.
SaveOnError_Never(exception) == FALSE

\* The save of the except handler: it is made whenever the try body raised.
SaveOnError(exception) == exception

\* One iteration of fetch_album_info that reuses the cached album info.
CacheHit ==
    /\ InLoop
    /\ IsCacheHit(songs[Current].id)
    /\ songs' = [songs EXCEPT
                   ![Current] = CopyCached(@, api_cache[songs[Current].id])]
    /\ completed_items' = completed_items + 1
    /\ log' = Append(log, LogItem("hit", FALSE, FALSE, FALSE, FALSE, TRUE))
    /\ UNCHANGED <<authenticated, cache_file, api_cache, queried_ids,
                   library_uploads_cache, successful_api_count, pc, files,
                   parsed, persist, progress, setting>>

\* One iteration of fetch_album_info on a library upload.
LibraryUpload ==
    /\ InLoop
    /\ ~IsCacheHit(songs[Current].id)
    /\ songs[Current].isLibraryUpload
    /\ \E f \in FetchAnswers, sv \in SaveOutcomes :
         LET g == get_library_uploads(f, sv)
             r == process_library_upload(songs[Current], g.uploads)
             cache1 == LoopCacheWrite(g.cache, r.song, r.success)
             saved == g.fetched /\ ~g.raised
         IN  /\ songs' = [songs EXCEPT ![Current] = r.song]
             /\ library_uploads_cache' = g.luc
             /\ successful_api_count' = g.count
             /\ cache_file' = g.file
             /\ api_cache' = cache1
             /\ queried_ids' = LoopQueried(r.song, r.success)
             /\ log' = Append(log, LogItem("library", FALSE, g.fetched,
                                           g.raised, FALSE, r.success))
             /\ persist' =
                  IF saved THEN Added(Saved(persist, sv), NewKeys(g.cache, cache1))
                  ELSE Added(persist, NewKeys(api_cache, cache1))
    /\ completed_items' = completed_items + 1
    /\ progress' = ShowProgress(completed_items + 1)
    /\ UNCHANGED <<authenticated, pc, files, parsed, setting>>

\* One iteration of fetch_album_info on a regular song.
RegularSong ==
    /\ InLoop
    /\ ~IsCacheHit(songs[Current].id)
    /\ ~songs[Current].isLibraryUpload
    /\ \E s \in SearchAnswers(songs[Current]), sv \in SaveOutcomes :
         LET r == process_regular_song(songs[Current], s)
             success == r.success /\ ~r.exception
             cache1 == LoopCacheWrite(r.cache, r.song, success)
             saved == r.save \/ SaveOnError(r.exception)
         IN  /\ songs' = [songs EXCEPT ![Current] = r.song]
             /\ successful_api_count' = r.count
             /\ api_cache' = cache1
             /\ queried_ids' = LoopQueried(r.song, success)
             /\ cache_file' =
                  IF saved THEN save_cache(r.cache, cache_file, sv)
                  ELSE cache_file
             /\ log' = Append(log, LogItem("search", r.searched, FALSE,
                                           r.raised, r.exception, success))
             /\ persist' =
                  IF saved THEN Added(Saved(persist, sv), NewKeys(r.cache, cache1))
                  ELSE Added(persist, NewKeys(api_cache, cache1))
             /\ pc' = PcAfterTry(r.exception)
    /\ completed_items' = completed_items + 1
    /\ progress' = ShowProgress(completed_items + 1)
    /\ UNCHANGED <<authenticated, library_uploads_cache, files, parsed,
                   setting>>

\* The end of fetch_album_info: the final save_cache, finalize_data and
\* write_output_files.
Finalize ==
    /\ pc = "loop"
    /\ completed_items = Len(songs)
    /\ \E sv \in SaveOutcomes :
         /\ cache_file' = save_cache(api_cache, cache_file, sv)
         /\ persist' = Saved(persist, sv)
    /\ songs' = finalize_data(songs)
    /\ files' = write_output_files(finalize_data(songs))
    /\ pc' = "done"
    /\ UNCHANGED <<authenticated, api_cache, queried_ids,
                   library_uploads_cache, successful_api_count,
                   completed_items, parsed, log, progress, setting>>

Next ==
    \/ LoadCache
    \/ ProcessHistoryData
    \/ CacheHit
    \/ LibraryUpload
    \/ RegularSong
    \/ Finalize

Spec == Init /\ [][Next]_vars

\* ------------------------------------------------- reading the run

\* The items of the output files, the chunk files in numeric order.
RECURSIVE ConcatChunks(_, _)
ConcatChunks(fs, n) ==
    IF ChunkName(n) \in DOMAIN fs THEN fs[ChunkName(n)] \o ConcatChunks(fs, n + 1)
    ELSE <<>>

Output ==
    IF "formatted.json" \in DOMAIN files THEN files["formatted.json"]
    ELSE ConcatChunks(files, 1)

\* The processed positions, and those whose Listen carries the id.
Processed == 1..Len(log)

WithId(id) == {k \in Processed : parsed[k].id = id}

\* How often the Catalog Client was called.
SearchCalls(id) == Cardinality({k \in WithId(id) : log[k].searched})

FetchCalls == Cardinality({k \in Processed : log[k].fetched})

HasAlbum(song) == "albumName" \in DOMAIN song

\* Two Listens carry the same enrichment.
SameEnrichment(s, t) ==
    /\ HasAlbum(s) = HasAlbum(t)
    /\ HasAlbum(s) => s.albumName = t.albumName
    /\ s.artistName = t.artistName

\* A step of the loop: one more item is in the log.
ItemStep == Len(log') = Len(log) + 1

\* ------------------------------------------------------------ claims

\* C1: in one run the Catalog Client search is invoked at most once for
\* every non-empty external id, whatever the search answers.
C1_SearchAtMostOncePerId ==
    \A id \in Ids \ {""} : SearchCalls(id) <= 1

\* Every item whose Catalog Client call raised, in any state after it.
C2_RaisedState ==
    \A k \in Processed : log[k].raised =>
        /\ ~HasAlbum(songs[k])
        /\ pc \in {"loop", "done"}
        /\ pc = "done" =>
             /\ Len(log) = Len(parsed)
             /\ Len(Output) = Len(parsed)
             /\ ~HasAlbum(Output[k])

\* The step in which the Catalog Client call of an item raises.
C2_RaisedStep ==
    (ItemStep /\ log'[Len(log')].raised) =>
        /\ songs' = songs
        /\ api_cache' = api_cache
        /\ queried_ids' = queried_ids
        /\ library_uploads_cache' = library_uploads_cache
        /\ completed_items' = completed_items + 1

\* C2: a Listen whose Catalog Client call raised keeps albumName absent,
\* the raise changes nothing the later items read (cache, queried ids,
\* snapshot, Listens), the loop goes on, and the finished run has processed
\* all N items and written all N to the output.
C2_RaiseIsLocal == []C2_RaisedState /\ [][C2_RaisedStep]_vars

\* C2 witness: item 1 raised, item 2 was enriched after it, the run is done.
C2_Witness ==
    /\ pc = "done"
    /\ Len(log) = 2
    /\ log[1].raised
    /\ log[2].success
    /\ HasAlbum(Output[2])
    /\ ~HasAlbum(Output[1])

\* C3: at the end of a run, two Listens with the same non-empty external id
\* have the same albumName (or both none) and the same artistName.
C3_SameIdSameEnrichment ==
    pc = "done" =>
        \A i, j \in 1..Len(parsed) :
            (parsed[i].id = parsed[j].id /\ parsed[i].id # "")
                => SameEnrichment(Output[i], Output[j])

\* One item is processed: what the step leaves of the Listen and the cache.
C4_Step ==
    ItemStep =>
        LET k == Len(log')
            before == songs[k]
            after == songs'[k]
        IN  \/ /\ HasAlbum(after)
               /\ before.id # "" =>
                    /\ before.id \in DOMAIN api_cache'
                    /\ api_cache'[before.id] = Entry(after.albumName, after.artistName)
            \/ /\ ~HasAlbum(after)
               /\ after.artistName = before.artistName
               /\ \A id \in Ids : id \in DOMAIN api_cache' =>
                    (id \in DOMAIN api_cache /\ api_cache'[id] = api_cache[id])

\* C4: processing one item either enriches it fully (albumName set, and for
\* a non-empty id a cache entry with the Listen's albumName and artistName)
\* or not at all (albumName absent, artistName and cache unchanged).
C4_ItemAtomicity == [][C4_Step]_vars

\* One item is processed whose id is a key of the cache.
C5_Step ==
    (ItemStep /\ songs[Current].id # "" /\ songs[Current].id \in DOMAIN api_cache) =>
        LET cached == api_cache[songs[Current].id]
            item == log'[Len(log')]
        IN  /\ ~item.searched
            /\ ~item.fetched
            /\ HasAlbum(songs'[Current])
            /\ songs'[Current].albumName = cached.albumName
            /\ songs'[Current].artistName = cached.artistName
            /\ successful_api_count' = successful_api_count

\* C5: a Listen whose non-empty id is a key of the Match Cache gets the
\* cached albumName and artistName and causes no Catalog Client call.
C5_CachedIdIsNotQueried == [][C5_Step]_vars

\* C5 witness: the first Listen is served from the persisted cache, which
\* changes its artistName, and nothing was asked of the Catalog Client.
C5_Witness ==
    /\ pc = "done"
    /\ Len(log) = MaxSongs
    /\ log[1].path = "hit"
    /\ Output[1].artistName # parsed[1].artistName
    /\ \A k \in Processed : log[k].path = "hit"
    /\ successful_api_count = 0

\* C6: the library snapshot is fetched at most once per run, and never
\* when the persisted cache held it.
C6_FetchAtMostOnce == FetchCalls <= 1

\* C7: no item of an output file has the key 'id' or 'isLibraryUpload'.
C7_OutputHasNoInternalFields ==
    \A name \in DOMAIN files : \A k \in 1..Len(files[name]) :
        /\ "id" \notin DOMAIN files[name][k]
        /\ "isLibraryUpload" \notin DOMAIN files[name][k]

\* C7 witness: output written after a cache hit, a success with no hit and
\* an exception were seen in the run.
C7_Witness ==
    /\ pc = "done"
    /\ Len(Output) = MaxSongs
    /\ \E k \in Processed : log[k].exception
    /\ \E k \in Processed : log[k].success

\* ------------------------------------- the chunking specification

\* The lengths around every multiple of chunk_size up to MaxChunks chunks.
ChunkLengths ==
    {n \in 0..(MaxChunks * chunk_size + ChunkSlack) :
        \E c \in 0..MaxChunks :
            /\ n >= c * chunk_size - ChunkSlack
            /\ n <= c * chunk_size + ChunkSlack}

\* The loop of fetch_album_info has ended on n topic-channel Listens without
\* titleUrl, for each of which the search returned nothing.
InitChunk ==
    \E n \in ChunkLengths :
        /\ authenticated = FALSE
        /\ cache_file = FileMissing
        /\ api_cache = EmptyDict
        /\ queried_ids = {}
        /\ library_uploads_cache = None
        /\ successful_api_count = n
        /\ parsed = [k \in 1..n |-> Song("X", "", k, FALSE)]
        /\ songs = parsed
        /\ completed_items = n
        /\ pc = "loop"
        /\ files = EmptyDict
        /\ log = [k \in 1..n |->
                    LogItem("search", TRUE, FALSE, FALSE, FALSE, FALSE)]
        /\ args = NoArgs
        /\ history = parsed
        /\ client = AnyClient
        /\ persist = NothingSaved
        /\ progress = {k \in 1..n : k % progress_every = 0 \/ k = n}
        /\ first_output = None

NextChunk == Finalize

SpecChunk == InitChunk /\ [][NextChunk]_vars

CeilDiv(n, c) == (n + c - 1) \div c

RECURSIVE ConcatFirst(_, _)
ConcatFirst(fs, n) ==
    IF n = 0 THEN <<>> ELSE ConcatFirst(fs, n - 1) \o fs[ChunkName(n)]

\* C8: N < 2800 items go to the one file formatted.json; N >= 2800 items go
\* to ceil(N / 2800) files formatted-1.json .., each of 1 to 2800 items,
\* whose concatenation in numeric order is the whole list.
C8_ChunkingLaw ==
    pc = "done" =>
        LET N == Len(songs)
            n == CeilDiv(N, 2800)
        IN  IF N < 2800
            THEN /\ DOMAIN files = {"formatted.json"}
                 /\ files["formatted.json"] = songs
            ELSE /\ DOMAIN files = {ChunkName(k) : k \in 1..n}
                 /\ \A k \in 1..n : Len(files[ChunkName(k)]) \in 1..2800
                 /\ ConcatFirst(files, n) = songs

\* C8 witness: more than two full chunks, so three files, the last one
\* short.
C8_Witness ==
    /\ pc = "done"
    /\ Len(songs) > 2 * 2800
    /\ Cardinality(DOMAIN files) = 3
    /\ Len(files[ChunkName(3)]) < 2800

\* C9: enrichment keeps the length and the order of the Listens and changes
\* only albumName and artistName; the output has the trackName and ts of
\* the input at every position.
C9_OrderAndFrame ==
    /\ pc \in {"loop", "done"} =>
         /\ Len(songs) = Len(parsed)
         /\ \A i \in 1..Len(parsed) :
              /\ songs[i].trackName = parsed[i].trackName
              /\ songs[i].ts = parsed[i].ts
    /\ pc = "loop" =>
         \A i \in 1..Len(parsed) :
              /\ songs[i].isLibraryUpload = parsed[i].isLibraryUpload
              /\ songs[i].id = parsed[i].id
              /\ DOMAIN songs[i] \subseteq (DOMAIN parsed[i]) \cup {"albumName"}
    /\ pc = "done" =>
         /\ Len(Output) = Len(parsed)
         /\ \A i \in 1..Len(parsed) :
              /\ Output[i].trackName = parsed[i].trackName
              /\ Output[i].ts = parsed[i].ts

\* C9 witness: a finished run in which one Listen got an album and another
\* artist and one got nothing.
C9_Witness ==
    /\ pc = "done"
    /\ Len(Output) = MaxSongs
    /\ \E i \in 1..Len(Output) :
         HasAlbum(Output[i]) /\ Output[i].artistName # parsed[i].artistName
    /\ \E i \in 1..Len(Output) : ~HasAlbum(Output[i])

\* C10: a Listen with an empty id is never a cache hit, a resolution is
\* attempted for each, and "" is never a key of the cache.
C10_EmptyIdNeverCached ==
    /\ "" \notin DOMAIN api_cache
    /\ "" \notin queried_ids
    /\ "" \notin DOMAIN cache_file.data
    /\ \A k \in Processed : parsed[k].id = "" =>
         /\ log[k].path \in {"library", "search"}
         /\ log[k].path = "search" => log[k].searched

\* C10 witness: two Listens with an empty id, each resolved by a search of
\* its own.
C10_Witness ==
    /\ Len(log) >= 2
    /\ \A k \in 1..2 :
         parsed[k].id = "" /\ log[k].searched /\ log[k].success

\* ------------------------------------- the command-line specification

\* main from its first line: any command line, no cache file yet.
InitMain ==
    /\ authenticated \in BOOLEAN
    /\ cache_file = FileMissing
    /\ Fresh
    /\ pc = "args"
    /\ files = EmptyDict
    /\ history \in UNION {SongLists(n) : n \in 0..MaxSongs}
    /\ args \in ArgSets
    /\ client = AnyClient
    /\ first_output = None

\* parser.parse_args(): --no-album is not an option of the parser, which
\* prints the usage and exits with status 2 before anything else is done.
ParseArgs ==
    /\ pc = "args"
    /\ pc' = IF args.no_album THEN "usage_error" ELSE "load"
    /\ UNCHANGED <<authenticated, cache_file, api_cache, queried_ids,
                   library_uploads_cache, successful_api_count, songs,
                   completed_items, files, parsed, log, persist, progress,
                   setting>>

NextMain == ParseArgs \/ Next

SpecMain == InitMain /\ [][NextMain]_vars

\* The program has ended.
Ended == pc \in {"done", "usage_error"}

Smaller(a, b) == IF a < b THEN a ELSE b

\* C11: with --limit N, N >= 0, and no other filter, the first min(N, M) of
\* the M parsed Listens are enriched and the output holds exactly those, in
\* order.
C11_LimitTruncates ==
    (pc = "done" /\ args.limit # None /\ ~args.only_uploads /\ ~args.test_mode)
        => LET n == Smaller(args.limit[1], Len(history))
           IN  /\ parsed = SubSeq(history, 1, n)
               /\ Len(Output) = n
               /\ \A i \in 1..n : Output[i].ts = history[i].ts

\* C12: with --no-album the run ends with the Catalog Client never called,
\* no albumName in the output, and the output files holding the parsed and
\* filtered Listens without their internal fields.
C12_NoAlbumSkipsEnrichment ==
    (Ended /\ args.no_album) =>
        /\ FetchCalls = 0
        /\ \A k \in Processed : ~log[k].searched
        /\ files = write_output_files(finalize_data(ApplyFilters(history, args)))

\* --------------------------------------- the persistence specification

\* A run on LossSongs topic-channel Listens with ids "1", "2", ... of their
\* own, no cache file, and a client that answers every search with nothing
\* or with an album.
InitLoss ==
    /\ authenticated = FALSE
    /\ cache_file = FileMissing
    /\ Fresh
    /\ pc = "load"
    /\ files = EmptyDict
    /\ history = [k \in 1..LossSongs |-> Song("X", ToString(k), k, FALSE)]
    /\ args = NoArgs
    /\ client = PlainClient
    /\ first_output = None

NextLoss ==
    \/ LoadCache
    \/ ProcessHistoryData
    \/ RegularSong
    \/ Finalize

SpecLoss == InitLoss /\ [][NextLoss]_vars

\* C13: during enrichment, at most 10 cache entries have been added since
\* the cache file was last written.
C13_BoundedUnsaved == persist.since <= 10

\* ------------------------------------------------ claims on one run

\* The file after a call of save_cache that ended as persist says.
LastSaveWrote(cache, before, after) ==
    after = save_cache(cache, before, persist'.last)

\* The step of an item whose resolution raised, and the step that ends the
\* loop: save_cache is called on the cache as it is, whatever the write
\* does the run goes on, and no output file exists before the last save.
C14_Step ==
    /\ (ItemStep /\ log'[Len(log')].exception) =>
         /\ persist'.calls = persist.calls + 1
         /\ persist'.since = 0
         /\ LastSaveWrote(api_cache', cache_file, cache_file')
         /\ pc' = "loop"
    /\ (pc = "loop" /\ pc' = "done") =>
         /\ persist'.calls = persist.calls + 1
         /\ LastSaveWrote(api_cache, cache_file, cache_file')
         /\ files = EmptyDict
         /\ DOMAIN files' # {}

\* The finished run: the output is written, and a last write that worked
\* left the in-memory cache in the file.
C14_Done ==
    pc = "done" =>
        /\ DOMAIN files # {}
        /\ Len(Output) = Len(parsed)
        /\ persist.last = "ok" => cache_file = FileOf(api_cache)

\* C14: the cache is saved after every item whose resolution raised and
\* once more at the end of the loop, before any output file is written; a
\* failing write never stops the run, and after a run whose last write
\* worked the cache file holds the in-memory cache.
C14_PersistOnErrorAndAtEnd == []C14_Done /\ [][C14_Step]_vars

\* C14 witness: the first item raised, the second was resolved and cached,
\* and the finished run left the cache in the file.
C14_Witness ==
    /\ pc = "done"
    /\ Len(log) = 2
    /\ log[1].exception
    /\ log[2].success
    /\ persist.calls = 2
    /\ persist.last = "ok"
    /\ "a" \in DOMAIN api_cache
    /\ cache_file = FileOf(api_cache)

\* A step after load_cache: every key stays, with its value or with the
\* entry just written for the Listen of the step.
C15_Step ==
    pc # "load" =>
        \A k \in DOMAIN api_cache :
            /\ k \in DOMAIN api_cache'
            /\ \/ api_cache'[k] = api_cache[k]
               \/ /\ ItemStep
                  /\ k = songs[Current].id
                  /\ api_cache'[k] = LoopEntry(songs'[Current])

\* C15: once load_cache has finished, no step of the run removes a key of
\* the in-memory cache; a write to a key that exists replaces its value.
C15_CacheOnlyGrows == [][C15_Step]_vars

\* C15 witness: the run fetched the snapshot, which put the sentinel key
\* into the cache, then resolved a Listen with id "a" and cached it too.
C15_Witness ==
    /\ Len(log) = 2
    /\ log[1].fetched /\ ~log[1].raised
    /\ log[2].success /\ log[2].path # "hit"
    /\ parsed[2].id = "a"
    /\ DOMAIN api_cache = {"a", cache_key}

\* The library-upload Listens of an unauthenticated run that were not
\* answered from the cache under their own id.
UnmatchedUploads ==
    {k \in Processed : parsed[k].isLibraryUpload /\ log[k].path # "hit"}

\* C16: without authentication get_library_upload_songs is never called and
\* the snapshot under the sentinel key is never read into
\* library_uploads_cache; a library-upload Listen gets an albumName only
\* by a cache hit on its own id, and otherwise keeps its artistName and has
\* no albumName.
C16_UnauthenticatedSkipsLibrary ==
    ~authenticated =>
        /\ FetchCalls = 0
        /\ library_uploads_cache = None
        /\ \A k \in UnmatchedUploads :
               /\ ~HasAlbum(songs[k])
               /\ songs[k].artistName = parsed[k].artistName
               /\ ~log[k].success
        /\ \A k \in Processed :
               (parsed[k].isLibraryUpload /\ HasAlbum(songs[k])) =>
                   /\ log[k].path = "hit"
                   /\ parsed[k].id \in DOMAIN api_cache

\* C16 witness: an unauthenticated run whose cache file holds a snapshot
\* with an upload of id "a" ended with a library-upload Listen of id "a"
\* that was not a cache hit.
C16_Witness ==
    /\ ~authenticated
    /\ pc = "done"
    /\ cache_key \in DOMAIN api_cache
    /\ api_cache[cache_key] = <<UploadB, UploadA>>
    /\ \E k \in UnmatchedUploads : parsed[k].id = "a"

\* ------------------------------------------------------ a second run

\* The first run of two: no cache file yet, and a deterministic client
\* that never raises.
InitRerun ==
    /\ authenticated \in BOOLEAN
    /\ cache_file = FileMissing
    /\ Fresh
    /\ pc = "load"
    /\ files = EmptyDict
    /\ history \in UNION {SongLists(n) : n \in 0..MaxSongs}
    /\ args = NoArgs
    /\ client \in FixedClients
    /\ first_output = None

\* The program is started again on the same history with the same client:
\* a new processor (__init__) that finds api_cache.json and the output
\* files as the first run left them.  The output of the first run is kept,
\* with whether its last save_cache wrote the file.
Rerun ==
    /\ pc = "done"
    /\ first_output = None
    /\ first_output' = Some([output |-> Output, saved |-> persist.last = "ok"])
    /\ api_cache' = EmptyDict
    /\ queried_ids' = {}
    /\ library_uploads_cache' = None
    /\ successful_api_count' = 0
    /\ songs' = <<>>
    /\ completed_items' = 0
    /\ parsed' = <<>>
    /\ log' = <<>>
    /\ persist' = NothingSaved
    /\ progress' = {}
    /\ pc' = "load"
    /\ UNCHANGED <<authenticated, cache_file, files, args, history, client>>

NextRerun == Next \/ Rerun

SpecRerun == InitRerun /\ [][NextRerun]_vars

\* C17: with a deterministic client that never raises, a second run on the
\* same Listens and on the cache file the first run persisted writes the
\* output the first run wrote.
C17_RerunSameOutput ==
    (pc = "done" /\ first_output # None /\ first_output[1].saved) =>
        Output = first_output[1].output

\* C18: a progress line is shown whenever the completed count reaches a
\* multiple of 10 and when it reaches the total, whatever path the item
\* took.
C18_ProgressReported ==
    pc \in {"loop", "done"} =>
        \A n \in 1..completed_items :
            (n % progress_every = 0 \/ n = Len(parsed)) => n \in progress

\* C19: after load_cache and at every item boundary queried_ids is a
\* subset of the keys of api_cache, the only key that can be missing from
\* it is the sentinel, and for every other id the test "id in queried_ids
\* and id in api_cache" says what "id in api_cache" says.
C19_QueriedIdsAreCachedKeys ==
    /\ queried_ids \subseteq DOMAIN api_cache
    /\ (DOMAIN api_cache) \ queried_ids \subseteq {cache_key}
    /\ \A id \in (Ids \cup queried_ids \cup DOMAIN api_cache) \ {cache_key} :
           (id \in queried_ids /\ id \in DOMAIN api_cache)
               <=> id \in DOMAIN api_cache

\* C19 witness: an item boundary where the sentinel key, fetched in this
\* run, is in the cache and not in queried_ids, and a resolved id is in
\* both.
C19_Witness ==
    /\ pc = "loop"
    /\ Len(log) >= 1
    /\ cache_key \in DOMAIN api_cache
    /\ cache_key \notin queried_ids
    /\ "a" \in queried_ids

====
